---------------------------- MODULE Spec2Model ----------------------------
(***************************************************************************)
(* Model of cmswww/cmd/cmswwwdataload/config (Load) and of cmswww/database *)
(* (Identity, ActiveIdentity, User).                                       *)
(*                                                                         *)
(* Strings that hold paths are modelled as records [abs, segs]: abs says   *)
(* whether the string starts with the separator, segs are the pieces       *)
(* between separators.  The empty string is [abs |-> FALSE, segs |-> <<>>].*)
(* A string without separator is a relative path of one segment.           *)
(***************************************************************************)
EXTENDS Integers, Sequences, FiniteSets, TLC

VARIABLES
    \* ---- inputs of one run of Load (os.Args, the file system) ----
    args,            \* os.Args[1:], a sequence of options
    fileKind,        \* what is found at the config file path
    fileOpts,        \* the options of a readable, well-formed config file
    mkdirOk,         \* whether the file system lets the data directory be made
    \* ---- state of Load ----
    pc,              \* position in Load
    preCfg,          \* config.go:118
    cfg,             \* config.go:97
    configFileError, \* config.go:146
    readPath,        \* the path handed to ParseFile, once it is
    fileRead,        \* ParseFile has been called
    createdDir,      \* the path handed to MkdirAll, once it succeeded
    dirCreated,      \* MkdirAll has succeeded
    warnings,        \* number of "WARNING:" lines printed
    result,          \* what Load returned: "pending", "config", "ErrHelp", "error"
    errStage,        \* the step that returned the error
    \* ---- ActiveIdentity as a function under test ----
    ids,             \* the argument
    out,             \* the value returned
    called,          \* whether it has been called
    \* ---- one user record in a Database ----
    user,            \* the stored User
    now              \* time.Now().Unix()

loadVars == <<args, fileKind, fileOpts, mkdirOk, pc, preCfg, cfg, configFileError,
              readPath, fileRead, createdDir, dirCreated, warnings, result, errStage>>
idVars   == <<ids, out, called>>
userVars == <<user, now>>
vars     == <<loadVars, idVars, userVars>>

-----------------------------------------------------------------------------
(* Bounds *)

MaxArgs == 3

MaxIds == 3

MaxKey == 1

MaxTime == 1

MaxIdentities == 4

MaxClock == 5

-----------------------------------------------------------------------------
(* Strings and paths (path/filepath, strings, os) *)

Str(segs) == [abs |-> FALSE, segs |-> segs]

AbsPath(segs) == [abs |-> TRUE, segs |-> segs]

EmptyStr == Str(<<>>)

RECURSIVE CleanFrom(_, _, _)
CleanFrom(abs, rest, acc) ==
    IF rest = <<>> THEN acc
    ELSE LET s == Head(rest) IN
         IF s = "." \/ s = ""
         THEN CleanFrom(abs, Tail(rest), acc)
         ELSE IF s = ".."
              THEN IF acc # <<>> /\ acc[Len(acc)] # ".."
                   THEN CleanFrom(abs, Tail(rest), SubSeq(acc, 1, Len(acc) - 1))
                   ELSE IF abs
                        THEN CleanFrom(abs, Tail(rest), acc)
                        ELSE CleanFrom(abs, Tail(rest), Append(acc, ".."))
              ELSE CleanFrom(abs, Tail(rest), Append(acc, s))

\* filepath.Clean: Clean("") is ".".
Clean(p) ==
    LET s == CleanFrom(p.abs, p.segs, <<>>)
    IN  IF ~p.abs /\ s = <<>> THEN Str(<<".">>) ELSE [abs |-> p.abs, segs |-> s]

IsAbs(p) == p.abs

\* filepath.Join of two elements: empty elements are ignored, the rest is
\* joined and cleaned; all empty gives "".
Join(p, q) ==
    IF p = EmptyStr /\ q = EmptyStr THEN EmptyStr
    ELSE IF p = EmptyStr THEN Clean(q)
    ELSE Clean([abs |-> p.abs, segs |-> p.segs \o q.segs])

\* filepath.Dir: all but the last element, cleaned.
Dir(p) ==
    IF p.segs = <<>> THEN Clean(p)
    ELSE Clean([abs |-> p.abs, segs |-> SubSeq(p.segs, 1, Len(p.segs) - 1)])

\* filepath.Base of a path with at least one element.
Base(p) == IF p.segs = <<>> THEN "." ELSE p.segs[Len(p.segs)]

\* os.Getwd
Cwd == AbsPath(<<"work">>)

\* filepath.Abs
Abs(p) == IF IsAbs(p) THEN Clean(p) ELSE Join(Cwd, p)

\* The process environment: $D is set to /opt.
EnvD == AbsPath(<<"opt">>)

RECURSIVE ExpandSegs(_)
ExpandSegs(segs) ==
    IF segs = <<>> THEN <<>>
    ELSE IF Head(segs) = "$D" THEN EnvD.segs \o ExpandSegs(Tail(segs))
    ELSE <<Head(segs)>> \o ExpandSegs(Tail(segs))

\* os.ExpandEnv: a leading variable whose value is empty or absolute makes the
\* string start with the separator.
ExpandEnv(p) ==
    [abs  |-> p.abs \/ (p.segs # <<>> /\ Head(p.segs) = "$D"
                         /\ (EnvD = EmptyStr \/ EnvD.abs)),
     segs |-> ExpandSegs(p.segs)]

\* sharedconfig.DefaultHomeDir
DefaultHomeDir == AbsPath(<<"home", "u", ".cmswww">>)

defaultDataDirname == Str(<<"dataload">>)

defaultConfigFilename == Str(<<"cmswwwdataload.conf">>)

defaultPoliteiadLogFilename == Str(<<"politeiad.log">>)

defaultCmswwwLogFilename == Str(<<"cmswww.log">>)

defaultLogLevel == Str(<<"info">>)

defaultDataDir == Join(DefaultHomeDir, defaultDataDirname)

defaultConfigFile == Join(defaultDataDir, defaultConfigFilename)

cleanAndExpandPath(path) ==
    LET homeDir == Dir(DefaultHomeDir)
        p1 == IF ~path.abs /\ path.segs # <<>> /\ Head(path.segs) = "~"
              THEN [abs |-> homeDir.abs, segs |-> homeDir.segs \o Tail(path.segs)]
              ELSE path
    IN  Clean(ExpandEnv(p1))

-----------------------------------------------------------------------------
(* The Config record and the go-flags parsers bound to it *)

\* The zero Config has empty strings everywhere; Load starts from this one.
DefaultConfig ==
    [DataDir          |-> defaultDataDir,
     ConfigFile       |-> defaultConfigFile,
     DebugLevel       |-> defaultLogLevel,
     PoliteiadLogFile |-> EmptyStr,
     CmswwwLogFile    |-> EmptyStr]

Opt(flag, val) == [flag |-> flag, val |-> val]

\* What a user can type: --datadir, --configfile, --debuglevel with a value,
\* -h, and an option the Config does not declare.
DataDirArgs == {AbsPath(<<"tmp", "x">>), Str(<<"rel">>), EmptyStr}

ConfigFileArgs == {Str(<<"~", "my.conf">>), Str(<<"$D", "..", "my.conf">>)}

Tokens ==
    {Opt("datadir", v) : v \in DataDirArgs}
    \cup {Opt("configfile", v) : v \in ConfigFileArgs}
    \cup {Opt("debuglevel", Str(<<"debug">>)), Opt("help", EmptyStr),
          Opt("bogus", EmptyStr)}

ArgLists == UNION {[1..n -> Tokens] : n \in 0..MaxArgs}

\* The contents of a well-formed config file: each key at most once.
IniFiles ==
    {d \o c \o l :
        d \in {<<>>, <<Opt("datadir", AbsPath(<<"srv", "d">>))>>,
               <<Opt("datadir", Str(<<"frel">>))>>},
        c \in {<<>>, <<Opt("configfile", AbsPath(<<"f.conf">>))>>},
        l \in {<<>>, <<Opt("debuglevel", Str(<<"warn">>))>>}}

\* What is found at the config file path.
FileKinds == {"missing", "unreadable", "malformed", "valid"}

\* An option stores its value in the Config field its long name is bound to.
SetOption(c, o) ==
    IF o.flag = "datadir" THEN [c EXCEPT !.DataDir = o.val]
    ELSE IF o.flag = "configfile" THEN [c EXCEPT !.ConfigFile = o.val]
    ELSE IF o.flag = "debuglevel" THEN [c EXCEPT !.DebugLevel = o.val]
    ELSE c

\* Parser.Parse: the arguments are taken from left to right; the first one
\* that fails ends the parse with its error, the fields set until then stay
\* set.  -h fails with ErrHelp, an undeclared option with ErrUnknownFlag.
RECURSIVE ParseArgs(_, _)
ParseArgs(c, a) ==
    IF a = <<>> THEN [cfg |-> c, err |-> "nil"]
    ELSE IF Head(a).flag = "help" THEN [cfg |-> c, err |-> "ErrHelp"]
    ELSE IF Head(a).flag = "bogus" THEN [cfg |-> c, err |-> "ErrUnknownFlag"]
    ELSE ParseArgs(SetOption(c, Head(a)), Tail(a))

\* IniParser.ParseFile on a file that opens, reads and parses.
RECURSIVE IniApply(_, _)
IniApply(c, opts) ==
    IF opts = <<>> THEN c ELSE IniApply(SetOption(c, Head(opts)), Tail(opts))

\* The error of IniParser.ParseFile: os.Open and File.Read fail with an
\* *os.PathError (ENOENT for a missing file; EACCES, EISDIR, ... otherwise),
\* the ini reader with its own error type.
ParseFileError(kind) ==
    IF kind = "missing" THEN "PathError:ENOENT"
    ELSE IF kind = "unreadable" THEN "PathError:other"
    ELSE IF kind = "malformed" THEN "IniError"
    ELSE "nil"

-----------------------------------------------------------------------------
(* Load, config.go:95-198 *)

\* Mutant: the help error is ignored like the others.
IsHelpError_Ignored(err) == FALSE

\* config.go:122: the pre-parse error that ends Load.
IsHelpError(err) == err = "ErrHelp"

\* config.go:135-143: cfg after the data directory update.
UpdateDataDir(c, pre) ==
    IF pre.DataDir # EmptyStr
    THEN LET dd == Abs(pre.DataDir)
         IN  [c EXCEPT !.DataDir = dd,
                       !.ConfigFile =
                           IF pre.ConfigFile = defaultConfigFile
                           THEN Join(dd, defaultConfigFilename)
                           ELSE cleanAndExpandPath(pre.ConfigFile)]
    ELSE c

\* Mutant: no error of the config file is tolerated.
IsPathError_None(err) == FALSE

\* config.go:150: err.(*os.PathError)
IsPathError(err) == err \in {"PathError:ENOENT", "PathError:other"}

\* Mutant: the second parse fills a record other than cfg.
FinalParse_Discarded(c, a) == [cfg |-> c, err |-> ParseArgs(c, a).err]

\* config.go:160: the parser made at line 147 is bound to cfg.
FinalParse(c, a) == ParseArgs(c, a)

\* config.go:170: os.MkdirAll; the empty path cannot be made.
MkdirAllOk(dir, fsOk) == dir # EmptyStr /\ fsOk

\* Mutant: the deferred warning is dropped.
EmitWarning_Never(w, cfe) == w

\* config.go:188-190
EmitWarning(w, cfe) == IF cfe # "nil" THEN w + 1 ELSE w

\* Mutant: the log files stay under the default data directory.
LogFile_Default(c, name) == Join(defaultDataDir, name)

\* config.go:192-195
LogFile(c, name) == Join(c.DataDir, name)

LoadInit ==
    /\ args \in ArgLists
    /\ fileKind \in FileKinds
    /\ fileOpts \in IniFiles
    /\ (fileKind # "valid" => fileOpts = <<>>)
    /\ mkdirOk \in BOOLEAN
    /\ pc = "start"
    /\ preCfg = DefaultConfig
    /\ cfg = DefaultConfig
    /\ configFileError = "nil"
    /\ readPath = EmptyStr
    /\ fileRead = FALSE
    /\ createdDir = EmptyStr
    /\ dirCreated = FALSE
    /\ warnings = 0
    /\ result = "pending"
    /\ errStage = "none"

inputVars == <<args, fileKind, fileOpts, mkdirOk>>

\* config.go:118-126
PreParse ==
    /\ pc = "start"
    /\ LET r == ParseArgs(DefaultConfig, args)
       IN  /\ preCfg' = r.cfg
           /\ IF IsHelpError(r.err)
              THEN /\ result' = "ErrHelp"
                   /\ errStage' = "preparse"
                   /\ pc' = "done"
              ELSE /\ pc' = "datadir"
                   /\ UNCHANGED <<result, errStage>>
    /\ UNCHANGED <<inputVars, cfg, configFileError, readPath, fileRead,
                   createdDir, dirCreated, warnings, idVars, userVars>>

\* config.go:133-143
DataDirUpdate ==
    /\ pc = "datadir"
    /\ cfg' = UpdateDataDir(cfg, preCfg)
    /\ pc' = "configfile"
    /\ UNCHANGED <<inputVars, preCfg, configFileError, readPath, fileRead,
                   createdDir, dirCreated, warnings, result, errStage,
                   idVars, userVars>>

\* config.go:145-157
LoadConfigFile ==
    /\ pc = "configfile"
    /\ readPath' = cfg.ConfigFile
    /\ fileRead' = TRUE
    /\ LET err == ParseFileError(fileKind)
       IN  IF err = "nil"
           THEN /\ cfg' = IniApply(cfg, fileOpts)
                /\ pc' = "cmdline"
                /\ UNCHANGED <<configFileError, result, errStage>>
           ELSE IF ~IsPathError(err)
                THEN /\ result' = "error"
                     /\ errStage' = "configfile"
                     /\ pc' = "done"
                     /\ UNCHANGED <<cfg, configFileError>>
                ELSE /\ configFileError' = err
                     /\ pc' = "cmdline"
                     /\ UNCHANGED <<cfg, result, errStage>>
    /\ UNCHANGED <<inputVars, preCfg, createdDir, dirCreated, warnings,
                   idVars, userVars>>

\* config.go:159-166
ParseCommandLine ==
    /\ pc = "cmdline"
    /\ LET r == FinalParse(cfg, args)
       IN  /\ cfg' = r.cfg
           /\ IF r.err # "nil"
              THEN /\ result' = IF r.err = "ErrHelp" THEN "ErrHelp" ELSE "error"
                   /\ errStage' = "cmdline"
                   /\ pc' = "done"
              ELSE /\ pc' = "mkdir"
                   /\ UNCHANGED <<result, errStage>>
    /\ UNCHANGED <<inputVars, preCfg, configFileError, readPath, fileRead,
                   createdDir, dirCreated, warnings, idVars, userVars>>

\* config.go:168-186
CreateDataDir ==
    /\ pc = "mkdir"
    /\ IF MkdirAllOk(cfg.DataDir, mkdirOk)
       THEN /\ createdDir' = cfg.DataDir
            /\ dirCreated' = TRUE
            /\ pc' = "finish"
            /\ UNCHANGED <<result, errStage>>
       ELSE /\ result' = "error"
            /\ errStage' = "mkdir"
            /\ pc' = "done"
            /\ UNCHANGED <<createdDir, dirCreated>>
    /\ UNCHANGED <<inputVars, preCfg, cfg, configFileError, readPath, fileRead,
                   warnings, idVars, userVars>>

\* config.go:188-197
Finish ==
    /\ pc = "finish"
    /\ warnings' = EmitWarning(warnings, configFileError)
    /\ cfg' = [cfg EXCEPT
                 !.PoliteiadLogFile = LogFile(cfg, defaultPoliteiadLogFilename),
                 !.CmswwwLogFile = LogFile(cfg, defaultCmswwwLogFilename)]
    /\ result' = "config"
    /\ pc' = "done"
    /\ UNCHANGED <<inputVars, preCfg, configFileError, readPath, fileRead,
                   createdDir, dirCreated, errStage, idVars, userVars>>

-----------------------------------------------------------------------------
(* cmswww/database: Identity, IsIdentityActive, ActiveIdentity *)

\* A Key is a number standing for the 32 bytes; 0 is the all-zero key.
ZeroKey == 0

Identity(key, activated, deactivated) ==
    [Key |-> key, Activated |-> activated, Deactivated |-> deactivated]

\* Mutant: the comparison of Activated is inverted.
IsIdentityActive_Inverted(id) == id.Activated = 0 /\ id.Deactivated = 0

IsIdentityActive(id) == id.Activated # 0 /\ id.Deactivated = 0

\* Mutant: the scan does not stop at the first active identity.
RECURSIVE ActiveIdentity_Last(_)
ActiveIdentity_Last(i) ==
    IF i = <<>> THEN [key |-> ZeroKey, ok |-> FALSE]
    ELSE LET r == ActiveIdentity_Last(Tail(i))
         IN  IF r.ok THEN r
             ELSE IF Head(i).Activated # 0 /\ Head(i).Deactivated = 0
                  THEN [key |-> Head(i).Key, ok |-> TRUE]
                  ELSE r

RECURSIVE ActiveIdentity(_)
ActiveIdentity(i) ==
    IF i = <<>> THEN [key |-> ZeroKey, ok |-> FALSE]
    ELSE IF IsIdentityActive(Head(i)) THEN [key |-> Head(i).Key, ok |-> TRUE]
    ELSE ActiveIdentity(Tail(i))

Identities ==
    {Identity(k, a, d) : k \in 0..MaxKey, a \in 0..MaxTime, d \in 0..MaxTime}

IdentityLists == UNION {[1..n -> Identities] : n \in 0..MaxIds}

IdInit ==
    /\ ids \in IdentityLists
    /\ out = [key |-> ZeroKey, ok |-> FALSE]
    /\ called = FALSE

CallActiveIdentity ==
    /\ ~called
    /\ out' = ActiveIdentity(ids)
    /\ called' = TRUE
    /\ UNCHANGED <<ids, loadVars, userVars>>

-----------------------------------------------------------------------------
(* cmswww/database: the User record and its mutations through UserUpdate *)

\* A newly registered user: no identity, no token.
NewUser ==
    [RegisterVerificationToken |-> <<>>, LastLogin |-> 0, Identities |-> <<>>]

\* Registration verification: the registration token is cleared and the
\* first identity is put into service.
VerifiedUser(u, key, t) ==
    [u EXCEPT !.RegisterVerificationToken = <<>>,
              !.Identities =
                  IF u.Identities = <<>>
                  THEN <<Identity(key, t, 0)>>
                  ELSE [u.Identities EXCEPT
                          ![1].Activated = IF @ = 0 THEN t ELSE @]]

\* Identity rotation: the identity in service is retired, a new one is
\* appended in service.
RotatedUser(u, key, t) ==
    [u EXCEPT !.Identities =
        Append([k \in 1..Len(u.Identities) |->
                   IF IsIdentityActive(u.Identities[k])
                   THEN [u.Identities[k] EXCEPT !.Deactivated = t]
                   ELSE u.Identities[k]],
               Identity(key, t, 0))]

\* Login: the time of the login is recorded.
LoggedInUser(u, t) == [u EXCEPT !.LastLogin = t]

\* Database.UserUpdate: the record stored under the user's id is replaced.
UserUpdate(u) == user' = u

NewKeys == 1..(MaxKey + 1)

UserInit ==
    /\ user = NewUser
    /\ now = 1

VerifyRegistration ==
    /\ now < MaxClock
    /\ Len(user.Identities) < MaxIdentities
    /\ \E key \in NewKeys : UserUpdate(VerifiedUser(user, key, now))
    /\ now' = now + 1
    /\ UNCHANGED <<loadVars, idVars>>

RotateIdentity ==
    /\ now < MaxClock
    /\ Len(user.Identities) < MaxIdentities
    /\ \E key \in NewKeys : UserUpdate(RotatedUser(user, key, now))
    /\ now' = now + 1
    /\ UNCHANGED <<loadVars, idVars>>

Login ==
    /\ now < MaxClock
    /\ UserUpdate(LoggedInUser(user, now))
    /\ now' = now + 1
    /\ UNCHANGED <<loadVars, idVars>>

-----------------------------------------------------------------------------
(* Specifications *)

LoadIdle ==
    /\ args = <<>>
    /\ fileKind = "missing"
    /\ fileOpts = <<>>
    /\ mkdirOk = TRUE
    /\ pc = "off"
    /\ preCfg = DefaultConfig
    /\ cfg = DefaultConfig
    /\ configFileError = "nil"
    /\ readPath = EmptyStr
    /\ fileRead = FALSE
    /\ createdDir = EmptyStr
    /\ dirCreated = FALSE
    /\ warnings = 0
    /\ result = "pending"
    /\ errStage = "none"

IdIdle ==
    /\ ids = <<>>
    /\ out = [key |-> ZeroKey, ok |-> FALSE]
    /\ called = TRUE

UserIdle ==
    /\ user = NewUser
    /\ now = MaxClock

Init == LoadInit /\ IdIdle /\ UserIdle

Next ==
    \/ PreParse
    \/ DataDirUpdate
    \/ LoadConfigFile
    \/ ParseCommandLine
    \/ CreateDataDir
    \/ Finish

\* One run of Load on any command line and file system.
Spec == Init /\ [][Next]_vars

IdentityInit == LoadIdle /\ IdInit /\ UserIdle

IdentityNext == CallActiveIdentity

\* One call of ActiveIdentity on any sequence of identities.
SpecIdentity == IdentityInit /\ [][IdentityNext]_vars

UserStoreInit == LoadIdle /\ IdIdle /\ UserInit

UserNext ==
    \/ VerifyRegistration
    \/ RotateIdentity
    \/ Login

\* The life of one user record.
SpecUser == UserStoreInit /\ [][UserNext]_vars

-----------------------------------------------------------------------------
(* What the command line and the config file say, read off the inputs *)

Sets(opts, flag) == \E i \in 1..Len(opts) : opts[i].flag = flag

LastOf(opts, flag) ==
    opts[CHOOSE i \in 1..Len(opts) :
            /\ opts[i].flag = flag
            /\ \A j \in (i + 1)..Len(opts) : opts[j].flag # flag].val

FileSets(flag) == fileKind = "valid" /\ Sets(fileOpts, flag)

\* The value the precedence order gives a field whose built-in value is dflt.
ByPrecedence(flag, dflt) ==
    IF Sets(args, flag) THEN LastOf(args, flag)
    ELSE IF FileSets(flag) THEN LastOf(fileOpts, flag)
    ELSE dflt

ArgsValid == \A i \in 1..Len(args) : args[i].flag \notin {"help", "bogus"}

HasHelp == Sets(args, "help")

\* -h stands before every argument the parser rejects.
HelpReached ==
    \E i \in 1..Len(args) :
        /\ args[i].flag = "help"
        /\ \A j \in 1..(i - 1) : args[j].flag # "bogus"

\* The data directory the command line asks for, in absolute form.
CliDataDir ==
    Abs(IF Sets(args, "datadir") THEN LastOf(args, "datadir") ELSE defaultDataDir)

-----------------------------------------------------------------------------
(* Claims about Load *)

\* C1 as stated: in the record Load returns, every field settable by several
\* sources holds the command-line value if the command line sets it, else the
\* config-file value if the file sets it, else the built-in default.
C1_PrecedenceAsStated ==
    result = "config" =>
        /\ cfg.DataDir = ByPrecedence("datadir", defaultDataDir)
        /\ cfg.DebugLevel = ByPrecedence("debuglevel", defaultLogLevel)
        /\ cfg.ConfigFile = ByPrecedence("configfile", defaultConfigFile)

\* C1 amended: as stated for DataDir and DebugLevel; for ConfigFile the value
\* below the command line and the file is the default file name under the
\* absolute form of the command line's data directory (the built-in default
\* when the command line names no data directory).
C1_Precedence ==
    result = "config" =>
        /\ cfg.DataDir = ByPrecedence("datadir", defaultDataDir)
        /\ cfg.DebugLevel = ByPrecedence("debuglevel", defaultLogLevel)
        /\ cfg.ConfigFile =
               ByPrecedence("configfile", Join(CliDataDir, defaultConfigFilename))

C1_Witness ==
    /\ result = "config"
    /\ Sets(args, "datadir") /\ FileSets("datadir")
    /\ ~Sets(args, "debuglevel") /\ FileSets("debuglevel")
    /\ ~Sets(args, "configfile") /\ ~FileSets("configfile")
    /\ cfg.ConfigFile # defaultConfigFile

\* C2: in the record Load returns, DataDir is an absolute, cleaned path, also
\* when the command line gives a relative data directory.
C2_DataDirAbsolute ==
    result = "config" => IsAbs(cfg.DataDir) /\ Clean(cfg.DataDir) = cfg.DataDir

\* C3: with a data directory on the command line, the returned ConfigFile is
\* the default file name under the new data directory if no source names a
\* config file, and, if the command line names one, the cleaned and expanded
\* form of that path, which is also the path read.
C3_ConfigFileRelocated ==
    (result = "config" /\ Sets(args, "datadir")) =>
        /\ (~Sets(args, "configfile") /\ ~FileSets("configfile")) =>
               cfg.ConfigFile = Join(CliDataDir, defaultConfigFilename)
        /\ Sets(args, "configfile") =>
               /\ cfg.ConfigFile = cleanAndExpandPath(LastOf(args, "configfile"))
               /\ readPath = cleanAndExpandPath(LastOf(args, "configfile"))

\* C4: a missing config file never makes Load fail: no error comes from the
\* config file step, and with valid arguments and a data directory that can be
\* made Load returns a config and prints one warning; a config file with
\* invalid syntax always makes Load return an error and no config.
C4_MissingVersusMalformed ==
    pc = "done" =>
        /\ fileKind = "missing" => errStage # "configfile"
        /\ (fileKind = "missing" /\ ArgsValid /\ mkdirOk
                /\ ByPrecedence("datadir", defaultDataDir) # EmptyStr)
             => (result = "config" /\ warnings = 1)
        /\ fileKind = "malformed" => result \in {"error", "ErrHelp"}

C4_Witness ==
    /\ pc = "done"
    /\ fileKind = "missing"
    /\ Sets(args, "datadir")
    /\ result = "config"
    /\ warnings = 1

\* C5: absence is the only condition of the config file that is downgraded to
\* a warning: a config file that cannot be read for another reason makes Load
\* fail at that step.
C5_OnlyAbsenceTolerated ==
    (fileRead /\ fileKind = "unreadable") =>
        /\ pc = "done"
        /\ result = "error"
        /\ errStage = "configfile"
        /\ configFileError = "nil"

\* C8: in the record Load returns, both log files are direct children of the
\* record's DataDir, named politeiad.log and cmswww.log, and the directory
\* Load made is that DataDir.
C8_LogFilesUnderDataDir ==
    result = "config" =>
        /\ Dir(cfg.PoliteiadLogFile) = Clean(cfg.DataDir)
        /\ Base(cfg.PoliteiadLogFile) = Base(defaultPoliteiadLogFilename)
        /\ Dir(cfg.CmswwwLogFile) = Clean(cfg.DataDir)
        /\ Base(cfg.CmswwwLogFile) = Base(defaultCmswwwLogFilename)
        /\ dirCreated
        /\ createdDir = cfg.DataDir

C8_Witness ==
    /\ result = "config"
    /\ FileSets("datadir") /\ ~Sets(args, "datadir")
    /\ cfg.DataDir # defaultDataDir
    /\ Dir(cfg.CmswwwLogFile) = cfg.DataDir

\* C9 as stated: whenever the command line holds a help request, Load ends at
\* the pre-parse with the help outcome, before the config file is read and
\* before the data directory is made, whatever the other arguments.
C9_HelpAsStated ==
    (HasHelp /\ pc # "start") =>
        /\ pc = "done"
        /\ result = "ErrHelp"
        /\ errStage = "preparse"
        /\ ~fileRead
        /\ ~dirCreated

\* C9 amended: when the help request stands before every argument the parser
\* rejects, Load ends at the pre-parse with the help outcome, before the
\* config file is read and the data directory is made; in every other run the
\* pre-parse returns nothing and the config file is read next.
C9_HelpFirst ==
    /\ (HelpReached /\ pc # "start") =>
           /\ pc = "done"
           /\ result = "ErrHelp"
           /\ errStage = "preparse"
           /\ ~fileRead
           /\ ~dirCreated
    /\ (~HelpReached /\ pc = "done") => (fileRead /\ errStage # "preparse")

C9_Witness ==
    /\ HelpReached
    /\ Sets(args, "bogus")
    /\ Sets(args, "datadir")
    /\ pc = "done"
    /\ result = "ErrHelp"

\* C10: the warning about the config file is printed only once the config
\* file parse, the second command-line parse and the making of the data
\* directory have succeeded: never in a run that fails, and exactly once in a
\* run that succeeds without a config file.
C10_WarningDeferred ==
    /\ warnings > 0 => (fileRead /\ dirCreated /\ result = "config")
    /\ (pc = "done" /\ result # "config") => warnings = 0
    /\ (pc = "done" /\ result = "config" /\ fileKind = "missing") => warnings = 1

C10_Witness ==
    /\ pc = "done"
    /\ result = "config"
    /\ fileKind = "missing"
    /\ warnings = 1
    /\ dirCreated

-----------------------------------------------------------------------------
(* Claims about identities *)

ActiveAt(s, k) == s[k].Activated # 0 /\ s[k].Deactivated = 0

ActiveIndexes(s) == {k \in 1..Len(s) : ActiveAt(s, k)}

\* C6: ActiveIdentity returns the key of the lowest-index entry that has
\* Activated # 0 and Deactivated = 0, with true, if there is one, and else the
\* all-zero key with false; IsIdentityActive is true exactly of such entries.
C6_FirstActive ==
    /\ called =>
          IF ActiveIndexes(ids) = {}
          THEN out = [key |-> ZeroKey, ok |-> FALSE]
          ELSE \E k \in ActiveIndexes(ids) :
                  /\ \A j \in ActiveIndexes(ids) : k <= j
                  /\ out = [key |-> ids[k].Key, ok |-> TRUE]
    /\ \A k \in 1..Len(ids) : IsIdentityActive(ids[k]) <=> ActiveAt(ids, k)

C6_Witness ==
    /\ called
    /\ Cardinality(ActiveIndexes(ids)) >= 2
    /\ 1 \notin ActiveIndexes(ids)
    /\ \E j, k \in ActiveIndexes(ids) : j < k /\ ids[j].Key # ids[k].Key
    /\ out.ok

AtMostOneActive == Cardinality(ActiveIndexes(user.Identities)) <= 1

AppendOnly ==
    /\ Len(user'.Identities) >= Len(user.Identities)
    /\ \A k \in 1..Len(user.Identities) :
          user'.Identities[k].Key = user.Identities[k].Key

=============================================================================
